---- MODULE Spec2Model ----
(***************************************************************************)
(* Perplex-Mini backend (backend/main.py): a FastAPI relay that, for each  *)
(* POST /chat, searches the web, builds a prompt from the search context,  *)
(* the client-supplied history and the query, asks the model, and returns  *)
(* the answer with a source list.  GET / is a liveness probe.              *)
(*                                                                         *)
(* Text is a TLA+ string.  A Python dict is a function on its keys, a list *)
(* a sequence.  The two providers are the environment: each call returns   *)
(* a value or raises, chosen by the action that models the call.           *)
(***************************************************************************)
EXTENDS Integers, Sequences, FiniteSets, TLC

\* ------------------------------------------------------------------ bounds
NumReq == 3        \* POST /chat requests that may be in flight together
MaxHist == 2       \* longest history of the history specification
MaxResults == 3    \* TavilySearchResults(max_results=3)
TitleLen == 40     \* res["content"][:40]

Requests == 1..NumReq

VARIABLES
    keys_present,     \* both API keys are in the environment
    stdout,           \* lines printed by the process
    pc,               \* per request: "idle", "search", "generate", "done"
    body,             \* per request: the JSON body received
    request,          \* per request: the validated QueryRequest
    search_outcome,   \* per request: what search_tool.invoke did
    llm_outcome,      \* per request: what the model call of the chain did
    search_calls,     \* per request: the queries passed to the search provider
    llm_calls,        \* per request: the message sequences passed to the model
    raw_results,      \* per request: local raw_results
    context_text,     \* per request: local context_text
    chat_history,     \* per request: local chat_history
    response,         \* per request: the HTTP response of POST /chat
    home_response     \* the HTTP response of the latest GET /

vars == <<keys_present, stdout, pc, body, request, search_outcome, llm_outcome,
          search_calls, llm_calls, raw_results, context_text, chat_history,
          response, home_response>>

\* ------------------------------------------------------- python primitives
\* An exception: its class and its single argument.
Exc(cls, arg) == [cls |-> cls, arg |-> arg]
NoExc == Exc("", "")

\* str(e): the argument itself, except that KeyError shows the repr of its key.
str(e) == IF e.cls = "KeyError" THEN "'" \o e.arg \o "'" ELSE e.arg

\* join that also ends every item with the separator.
RECURSIVE join_trailing(_, _)
join_trailing(sep, items) ==
    IF Len(items) = 0 THEN ""
    ELSE items[1] \o sep \o join_trailing(sep, Tail(items))

\* sep.join(items)
RECURSIVE join(_, _)
join(sep, items) ==
    IF Len(items) = 0 THEN ""
    ELSE IF Len(items) = 1 THEN items[1]
    ELSE items[1] \o sep \o join(sep, Tail(items))

\* s[:n]
Prefix(s, n) == IF Len(s) <= n THEN s ELSE SubSeq(s, 1, n)

\* d[k] raises KeyError unless d has the key k.
HasKey(d, k) == k \in DOMAIN d
AllHave(items, k) == \A i \in 1..Len(items) : HasKey(items[i], k)

\* ------------------------------------------------------------- data models
Message(role, content) == [role |-> role, content |-> content]

\* A validation that also demands a non-empty query.
Valid_nonempty(b) == HasKey(b, "query") /\ b["query"] # ""

\* QueryRequest(**body): query is required, history defaults to [].
Valid(b) == HasKey(b, "query")
QueryRequest(b) ==
    [query |-> b["query"],
     history |-> IF HasKey(b, "history") THEN b["history"] ELSE <<>>]
NoRequest == [query |-> "", history |-> <<>>]

\* ------------------------------------------------------------ the prompt
HumanMessage(content) == [type |-> "human", content |-> content]
AIMessage(content) == [type |-> "ai", content |-> content]
SystemMessage(content) == [type |-> "system", content |-> content]

Lit(s) == [var |-> FALSE, text |-> s]
Var(name) == [var |-> TRUE, text |-> name]

\* The template string, split at its one replacement field.
template ==
    << Lit("\nYou are a helpful research assistant. \nAnswer the user's question based on the following context. \nIf the context doesn't contain the answer, say \"I couldn't find that information.\"\n\nContext:\n"),
       Var("context"),
       Lit("\n") >>

\* str.format of a template on the given variables.
RECURSIVE Format(_, _)
Format(parts, values) ==
    IF Len(parts) = 0 THEN ""
    ELSE (IF parts[1].var THEN values[parts[1].text] ELSE parts[1].text)
         \o Format(Tail(parts), values)

\* The prompt with the question ahead of the history.
prompt_questionFirst(values) ==
    <<SystemMessage(Format(template, values))>>
    \o <<HumanMessage(Format(<<Var("question")>>, values))>>
    \o values["chat_history"]

\* ChatPromptTemplate.from_messages([...]).invoke(values)
prompt(values) ==
    <<SystemMessage(Format(template, values))>>
    \o values["chat_history"]
    \o <<HumanMessage(Format(<<Var("question")>>, values))>>

\* ------------------------------------------------------- helper functions
\* format_history that tests for "assistant" and makes every other role human.
RECURSIVE format_history_strict(_)
format_history_strict(messages) ==
    IF Len(messages) = 0 THEN <<>>
    ELSE << IF messages[1].role = "assistant"
            THEN AIMessage(messages[1].content)
            ELSE HumanMessage(messages[1].content) >>
         \o format_history_strict(Tail(messages))

RECURSIVE format_history(_)
format_history(messages) ==
    IF Len(messages) = 0 THEN <<>>
    ELSE << IF messages[1].role = "user"
            THEN HumanMessage(messages[1].content)
            ELSE AIMessage(messages[1].content) >>
         \o format_history(Tail(messages))

\* ------------------------------------------------------------- responses
NoResponse == [status |-> 0, body |-> [detail |-> ""]]
Http(status, b) == [status |-> status, body |-> b]

\* raise HTTPException(status_code=500, detail=str(e))
HTTPException500(e) == Http(500, [detail |-> str(e)])

\* FastAPI's answer to a body that is no QueryRequest.
ValidationError == Http(422, [detail |-> "Field required"])

\* A source whose title gets the ellipsis only when the content was cut.
SourceOf_ellipsisIfCut(res) ==
    [title |-> IF Len(res["content"]) > TitleLen
               THEN SubSeq(res["content"], 1, TitleLen) \o "..."
               ELSE res["content"],
     url |-> res["url"]]

\* {"title": res["content"][:40] + "...", "url": res["url"]}
SourceOf(res) == [title |-> Prefix(res["content"], TitleLen) \o "...", url |-> res["url"]]

\* The sources kept in one module-level list that every request appends to.
RECURSIVE Gathered(_)
Gathered(n) == IF n = 0 THEN <<>> ELSE Gathered(n - 1) \o raw_results[n]
Sources_shared(results) ==
    [i \in 1..Len(Gathered(NumReq)) |-> SourceOf(Gathered(NumReq)[i])]

\* The list comprehension of D.
Sources(results) == [i \in 1..Len(results) |-> SourceOf(results[i])]

\* A liveness probe that reports missing credentials.
HomeResult_keys ==
    IF keys_present THEN Http(200, [message |-> "Perplex-Mini Backend is Running!"])
    ELSE Http(503, [message |-> "API Keys are missing"])

\* return {"message": "Perplex-Mini Backend is Running!"}
HomeResult == Http(200, [message |-> "Perplex-Mini Backend is Running!"])

\* --------------------------------------------------------------- outcomes
NoOutcome == [kind |-> "none", value |-> <<>>, text |-> "", exc |-> NoExc]
Returned(v) == [kind |-> "return", value |-> v, text |-> "", exc |-> NoExc]
ReturnedText(t) == [kind |-> "return", value |-> <<>>, text |-> t, exc |-> NoExc]
Raised(e) == [kind |-> "raise", value |-> <<>>, text |-> "", exc |-> e]

\* ------------------------------------------------------------------- Init
Warning == "WARNING: API Keys are missing. Check your .env file."

Init ==
    /\ keys_present \in BOOLEAN
    /\ stdout = IF keys_present THEN <<>> ELSE <<Warning>>
    /\ pc = [r \in Requests |-> "idle"]
    /\ body = [r \in Requests |-> [history |-> <<>>]]
    /\ request = [r \in Requests |-> NoRequest]
    /\ search_outcome = [r \in Requests |-> NoOutcome]
    /\ llm_outcome = [r \in Requests |-> NoOutcome]
    /\ search_calls = [r \in Requests |-> <<>>]
    /\ llm_calls = [r \in Requests |-> <<>>]
    /\ raw_results = [r \in Requests |-> <<>>]
    /\ context_text = [r \in Requests |-> ""]
    /\ chat_history = [r \in Requests |-> <<>>]
    /\ response = [r \in Requests |-> NoResponse]
    /\ home_response = NoResponse

\* ---------------------------------------------------------------- actions
\* A handler whose failure ends every request in flight.
Except_all(r, e) ==
    /\ stdout' = Append(stdout, "Error: " \o str(e))
    /\ response' = [q \in Requests |->
            IF q = r \/ pc[q] \in {"search", "generate"}
            THEN HTTPException500(e) ELSE response[q]]
    /\ pc' = [q \in Requests |->
            IF q = r \/ pc[q] \in {"search", "generate"} THEN "done" ELSE pc[q]]

\* except Exception as e: print(...); raise HTTPException(500, str(e))
Except(r, e) ==
    /\ stdout' = Append(stdout, "Error: " \o str(e))
    /\ response' = [response EXCEPT ![r] = HTTPException500(e)]
    /\ pc' = [pc EXCEPT ![r] = "done"]

\* POST /chat arrives; FastAPI builds the QueryRequest or rejects the body.
Post(r, b) ==
    /\ pc[r] = "idle"
    /\ body' = [body EXCEPT ![r] = b]
    /\ IF Valid(b)
       THEN /\ request' = [request EXCEPT ![r] = QueryRequest(b)]
            /\ pc' = [pc EXCEPT ![r] = "search"]
            /\ UNCHANGED response
       ELSE /\ response' = [response EXCEPT ![r] = ValidationError]
            /\ pc' = [pc EXCEPT ![r] = "done"]
            /\ UNCHANGED request
    /\ UNCHANGED <<keys_present, stdout, search_outcome, llm_outcome, search_calls,
                   llm_calls, raw_results, context_text, chat_history, home_response>>

\* A and B: the search returns `results`; the context is joined, the history
\* formatted.  A result without "content" raises KeyError in the join.
SearchReturn(r, results) ==
    /\ pc[r] = "search"
    /\ search_calls' = [search_calls EXCEPT ![r] = Append(@, request[r].query)]
    /\ search_outcome' = [search_outcome EXCEPT ![r] = Returned(results)]
    /\ raw_results' = [raw_results EXCEPT ![r] = results]
    /\ IF AllHave(results, "content")
       THEN /\ context_text' = [context_text EXCEPT ![r] =
                    join("\n\n", [i \in 1..Len(results) |-> results[i]["content"]])]
            /\ chat_history' = [chat_history EXCEPT ![r] =
                    format_history(request[r].history)]
            /\ pc' = [pc EXCEPT ![r] = "generate"]
            /\ UNCHANGED <<stdout, response>>
       ELSE /\ Except(r, Exc("KeyError", "content"))
            /\ UNCHANGED <<context_text, chat_history>>
    /\ UNCHANGED <<keys_present, body, request, llm_outcome, llm_calls, home_response>>

\* A search failure that falls back to an empty context and goes on.
SearchRaise_fallback(r, e) ==
    /\ pc[r] = "search"
    /\ search_calls' = [search_calls EXCEPT ![r] = Append(@, request[r].query)]
    /\ search_outcome' = [search_outcome EXCEPT ![r] = Raised(e)]
    /\ chat_history' = [chat_history EXCEPT ![r] = format_history(request[r].history)]
    /\ pc' = [pc EXCEPT ![r] = "generate"]
    /\ UNCHANGED <<keys_present, stdout, body, request, llm_outcome, llm_calls,
                   raw_results, context_text, response, home_response>>

\* A: the search raises `e`.
SearchRaise(r, e) ==
    /\ pc[r] = "search"
    /\ search_calls' = [search_calls EXCEPT ![r] = Append(@, request[r].query)]
    /\ search_outcome' = [search_outcome EXCEPT ![r] = Raised(e)]
    /\ Except(r, e)
    /\ UNCHANGED <<keys_present, body, request, llm_outcome, llm_calls, raw_results,
                   context_text, chat_history, home_response>>

\* The values the chain is invoked on.
ChainInput(r) ==
    [context |-> context_text[r], question |-> request[r].query,
     chat_history |-> chat_history[r]]

\* C and D: the model returns `answer`; the sources are shaped and the
\* response returned.  A result without "url" raises KeyError in D.
LlmReturn(r, answer) ==
    /\ pc[r] = "generate"
    /\ llm_calls' = [llm_calls EXCEPT ![r] = Append(@, prompt(ChainInput(r)))]
    /\ llm_outcome' = [llm_outcome EXCEPT ![r] = ReturnedText(answer)]
    /\ IF AllHave(raw_results[r], "url")
       THEN /\ response' = [response EXCEPT ![r] =
                    Http(200, [answer |-> answer, sources |-> Sources(raw_results[r])])]
            /\ pc' = [pc EXCEPT ![r] = "done"]
            /\ UNCHANGED stdout
       ELSE Except(r, Exc("KeyError", "url"))
    /\ UNCHANGED <<keys_present, body, request, search_outcome, search_calls,
                   raw_results, context_text, chat_history, home_response>>

\* A model failure answered with an empty answer and the sources.
LlmRaise_degraded(r, e) ==
    /\ pc[r] = "generate"
    /\ llm_calls' = [llm_calls EXCEPT ![r] = Append(@, prompt(ChainInput(r)))]
    /\ llm_outcome' = [llm_outcome EXCEPT ![r] = Raised(e)]
    /\ stdout' = Append(stdout, "Error: " \o str(e))
    /\ response' = [response EXCEPT ![r] = Http(200, [answer |-> "", sources |-> <<>>])]
    /\ pc' = [pc EXCEPT ![r] = "done"]
    /\ UNCHANGED <<keys_present, body, request, search_outcome, search_calls,
                   raw_results, context_text, chat_history, home_response>>

\* C: the model raises `e`.
LlmRaise(r, e) ==
    /\ pc[r] = "generate"
    /\ llm_calls' = [llm_calls EXCEPT ![r] = Append(@, prompt(ChainInput(r)))]
    /\ llm_outcome' = [llm_outcome EXCEPT ![r] = Raised(e)]
    /\ Except(r, e)
    /\ UNCHANGED <<keys_present, body, request, search_outcome, search_calls,
                   raw_results, context_text, chat_history, home_response>>

\* GET /
home ==
    /\ home_response' = HomeResult
    /\ UNCHANGED <<keys_present, stdout, pc, body, request, search_outcome,
                   llm_outcome, search_calls, llm_calls, raw_results, context_text,
                   chat_history, response>>

\* ----------------------------------------------------------------- inputs
Long == "0123456789012345678901234567890123456789tail"   \* 44 characters
Forty == "0123456789012345678901234567890123456789"      \* 40 characters

R1 == [content |-> "alpha", url |-> "http://a"]
R2 == [content |-> Long, url |-> "http://b"]
R3 == [content |-> Forty, url |-> "http://c"]
R4 == [content |-> "", url |-> "http://d"]
NoUrl == [content |-> "beta"]
NoContent == [url |-> "http://e"]

QuotaError == Exc("Exception", "quota exceeded")
MalformedError == Exc("KeyError", "results")
RateError == Exc("Exception", "rate limit")
EmptyError == Exc("Exception", "")

H1 == <<Message("user", "hi"), Message("assistant", "hello")>>

\* All sequences over S of length at most n.
RECURSIVE SeqsUpTo(_, _)
SeqsUpTo(S, n) ==
    IF n = 0 THEN {<<>>}
    ELSE LET shorter == SeqsUpTo(S, n - 1)
         IN  shorter \cup {Append(q, x) : q \in shorter, x \in S}

\* The concurrent specification: several requests, few inputs each.
ConcBodies == { [history |-> H1], [query |-> ""], [query |-> "who", history |-> H1] }
ConcResults == { <<>>, <<R2, R1>> }

PostC == \E r \in Requests, b \in ConcBodies : Post(r, b)
SearchReturnC == \E r \in Requests, res \in ConcResults : SearchReturn(r, res)
SearchRaiseC == \E r \in Requests : SearchRaise(r, MalformedError)
LlmReturnC == \E r \in Requests : LlmReturn(r, "yes")
LlmRaiseC == \E r \in Requests : LlmRaise(r, RateError)

Next == PostC \/ SearchReturnC \/ SearchRaiseC \/ LlmReturnC \/ LlmRaiseC \/ home

Spec == Init /\ [][Next]_vars

\* The history specification: one request, every history up to MaxHist turns.
Roles == {"user", "assistant", "User", ""}
Turns == {Message(role, content) : role \in Roles, content \in {"hi", ""}}
HistQueries == {"", "who {context}"}
HistBodies ==
    {[query |-> q] : q \in HistQueries}
    \cup {[query |-> q, history |-> h] : q \in HistQueries, h \in SeqsUpTo(Turns, MaxHist)}
HistResults == { <<>>, <<R1, R2>> }

PostH == \E b \in HistBodies : Post(1, b)
SearchReturnH == \E res \in HistResults : SearchReturn(1, res)
SearchRaiseH == SearchRaise(1, QuotaError)
LlmReturnH == \E a \in {"yes", ""} : LlmReturn(1, a)
LlmRaiseH == LlmRaise(1, RateError)

NextHist == PostH \/ SearchReturnH \/ SearchRaiseH \/ LlmReturnH \/ LlmRaiseH \/ home

SpecHist == Init /\ [][NextHist]_vars

\* The source specification: one request, every result list up to MaxResults.
Results == {R1, R2, R3, R4, NoUrl, NoContent}
SrcBodies == { [query |-> "who"], [query |-> "", history |-> H1] }

PostS == \E b \in SrcBodies : Post(1, b)
SearchReturnS == \E res \in SeqsUpTo(Results, MaxResults) : SearchReturn(1, res)
SearchRaiseS == \E e \in {QuotaError, MalformedError} : SearchRaise(1, e)
LlmReturnS == \E a \in {"yes", ""} : LlmReturn(1, a)
LlmRaiseS == \E e \in {RateError, EmptyError} : LlmRaise(1, e)

NextSrc == PostS \/ SearchReturnS \/ SearchRaiseS \/ LlmReturnS \/ LlmRaiseS \/ home

SpecSrc == Init /\ [][NextSrc]_vars

\* ----------------------------------------------------------------- claims
Started(r) == pc[r] # "idle"
Accepted(r) == Started(r) /\ HasKey(body[r], "query")
Formatted(r) == pc[r] = "generate" \/ llm_outcome[r].kind # "none"
Failure(r, detail) == response[r] = [status |-> 500, body |-> [detail |-> detail]]

\* C1: when the search provider raises, the request ends with status 500
\* whose detail is the stringified error, and the model provider is not
\* invoked for that request.
C1_SearchErrorIs500 ==
    \A r \in Requests :
        search_outcome[r].kind = "raise" =>
            /\ pc[r] = "done"
            /\ Failure(r, str(search_outcome[r].exc))
            /\ llm_calls[r] = <<>>
            /\ llm_outcome[r].kind = "none"

C1_Witness ==
    \E r \in Requests :
        /\ search_outcome[r] = Raised(MalformedError)
        /\ response[r].body.detail = "'results'"
        /\ \E q \in Requests : q # r /\ llm_calls[q] # <<>>

\* C2: when the model provider raises after a successful search, the request
\* ends with status 500 whose detail is the stringified error, and the
\* response has no answer field.
C2_LlmErrorIs500 ==
    \A r \in Requests :
        llm_outcome[r].kind = "raise" =>
            /\ search_outcome[r].kind = "return"
            /\ pc[r] = "done"
            /\ Failure(r, str(llm_outcome[r].exc))
            /\ ~HasKey(response[r].body, "answer")

C2_Witness ==
    \E r \in Requests :
        /\ llm_outcome[r] = Raised(RateError)
        /\ search_outcome[r] = Returned(<<R2, R1>>)
        /\ response[r].status = 500
        /\ response[r].body.detail = "rate limit"

\* C3: format_history returns one provider turn per ChatTurn, in the same
\* order and with the same content, human exactly when the role is "user"
\* and AI for every other role.
C3_FormatHistory ==
    \A r \in Requests :
        Formatted(r) =>
            LET h == request[r].history
                f == chat_history[r]
            IN  /\ Len(f) = Len(h)
                /\ \A i \in 1..Len(h) :
                    /\ f[i].content = h[i].content
                    /\ f[i].type \in {"human", "ai"}
                    /\ f[i].type = "human" <=> h[i].role = "user"

C3_Witness ==
    \E r \in Requests :
        /\ Formatted(r)
        /\ Len(request[r].history) = MaxHist
        /\ request[r].history[1].role = "User"
        /\ chat_history[r][1].type = "ai"
        /\ request[r].history[MaxHist].role = "user"
        /\ chat_history[r][MaxHist].type = "human"

\* C4: a successful response has one source per search result, in provider
\* order, each titled with the first 40 characters of the content (all of it
\* when shorter) followed by "...", and carrying the result's url.
C4_Sources ==
    \A r \in Requests :
        response[r].status = 200 =>
            LET res == search_outcome[r].value
                src == response[r].body.sources
            IN  /\ Len(src) = Len(res)
                /\ Len(res) <= MaxResults
                /\ \A i \in 1..Len(res) :
                    LET c == res[i]["content"]
                        t == src[i].title
                        n == IF Len(c) < TitleLen THEN Len(c) ELSE TitleLen
                    IN  /\ src[i].url = res[i]["url"]
                        /\ Len(t) = n + 3
                        /\ SubSeq(t, 1, n) = SubSeq(c, 1, n)
                        /\ SubSeq(t, n + 1, n + 3) = "..."

C4_Witness ==
    \E r \in Requests :
        /\ response[r].status = 200
        /\ search_outcome[r].value = <<R2, R1, R3>>
        /\ response[r].body.sources[1].title = Forty \o "..."
        /\ response[r].body.sources[2].title = "alpha..."

\* The contents of the first k results, each but the first after a blank line.
RECURSIVE ContextOf(_, _)
ContextOf(res, k) ==
    IF k = 0 THEN ""
    ELSE IF k = 1 THEN res[1]["content"]
    ELSE ContextOf(res, k - 1) \o "\n\n" \o res[k]["content"]

SystemText(context) == template[1].text \o context \o template[3].text

\* C5: the context block handed to the Answer Generator is the contents of
\* all results in provider order joined by "\n\n", with no leading or
\* trailing separator; with zero results it is empty and the request goes on
\* to generation.
C5_Context ==
    \A r \in Requests :
        LET res == search_outcome[r].value
        IN  /\ Formatted(r) =>
                /\ context_text[r] = ContextOf(res, Len(res))
                /\ \A k \in 1..Len(llm_calls[r]) :
                     llm_calls[r][k][1] = [type |-> "system",
                                           content |-> SystemText(ContextOf(res, Len(res)))]
            /\ (search_outcome[r].kind = "return" /\ res = <<>>) =>
                /\ Formatted(r)
                /\ context_text[r] = ""
                /\ llm_outcome[r].kind = "return" =>
                     /\ response[r].status = 200
                     /\ response[r].body.sources = <<>>

C5_Witness ==
    \E r \in Requests :
        /\ llm_calls[r] # <<>>
        /\ search_outcome[r].value = <<R1, R4, R2>>
        /\ context_text[r] = "alpha\n\n\n\n" \o Long

\* C6: the message sequence submitted to the model for a request with N
\* history turns has N+2 entries: the system instruction with the context
\* block, the N adapted turns in order, and a human turn with the raw query.
C6_Prompt ==
    \A r \in Requests :
        \A k \in 1..Len(llm_calls[r]) :
            LET msgs == llm_calls[r][k]
                h == IF HasKey(body[r], "history") THEN body[r]["history"] ELSE <<>>
                n == Len(h)
            IN  /\ Len(msgs) = n + 2
                /\ msgs[1].type = "system"
                /\ msgs[1].content = SystemText(context_text[r])
                /\ \A i \in 1..n :
                    /\ msgs[i + 1].content = h[i].content
                    /\ msgs[i + 1].type = IF h[i].role = "user" THEN "human" ELSE "ai"
                /\ msgs[n + 2] = [type |-> "human", content |-> body[r]["query"]]

C6_Witness ==
    \E r \in Requests :
        /\ Len(llm_calls[r]) = 1
        /\ body[r]["query"] = "who {context}"
        /\ HasKey(body[r], "history")
        /\ Len(body[r]["history"]) = MaxHist
        /\ body[r]["history"][1].role = "assistant"
        /\ body[r]["history"][MaxHist].role = "user"
        /\ context_text[r] # ""

\* What a request's own body and own provider results determine.
Determined(b, so, lo) ==
    IF ~HasKey(b, "query") THEN [status |-> 422, body |-> [detail |-> "Field required"]]
    ELSE IF so.kind = "raise"
        THEN [status |-> 500, body |-> [detail |-> str(so.exc)]]
    ELSE IF \E i \in 1..Len(so.value) : ~HasKey(so.value[i], "content")
        THEN [status |-> 500, body |-> [detail |-> "'content'"]]
    ELSE IF lo.kind = "raise"
        THEN [status |-> 500, body |-> [detail |-> str(lo.exc)]]
    ELSE IF \E i \in 1..Len(so.value) : ~HasKey(so.value[i], "url")
        THEN [status |-> 500, body |-> [detail |-> "'url'"]]
    ELSE [status |-> 200,
          body |-> [answer |-> lo.text,
                    sources |-> [i \in 1..Len(so.value) |->
                        [title |-> (IF Len(so.value[i]["content"]) <= TitleLen
                                    THEN so.value[i]["content"]
                                    ELSE SubSeq(so.value[i]["content"], 1, TitleLen))
                                   \o "...",
                         url |-> so.value[i]["url"]]]]]

\* C7: with several requests in flight, a provider exception fails only the
\* request it was raised in; every finished request's response is determined
\* by its own body and its own provider results, and a request still in
\* flight has no response.
C7_Isolation ==
    \A r \in Requests :
        /\ pc[r] = "done" =>
            /\ response[r] = Determined(body[r], search_outcome[r], llm_outcome[r])
            /\ response[r].status = 500 =>
                 \/ search_outcome[r].kind = "raise"
                 \/ llm_outcome[r].kind = "raise"
                 \/ \E i \in 1..Len(search_outcome[r].value) :
                        DOMAIN search_outcome[r].value[i] # {"content", "url"}
        /\ pc[r] # "done" => response[r] = NoResponse

C7_Witness ==
    \E r1, r2, r3 \in Requests :
        /\ pc[r1] = "done" /\ search_outcome[r1].kind = "raise"
        /\ pc[r2] = "done" /\ llm_outcome[r2].kind = "raise"
        /\ pc[r3] = "done" /\ response[r3].status = 200
        /\ llm_calls[r3] # <<>>
        /\ stdout[Len(stdout)] = "Error: rate limit"

\* C8: two identical QueryRequests whose provider calls gave identical
\* outputs get identical responses, whatever other requests were handled
\* before or between them.
C8_Idempotent ==
    \A r1, r2 \in Requests :
        ( /\ pc[r1] = "done" /\ pc[r2] = "done"
          /\ Accepted(r1) /\ Accepted(r2)
          /\ request[r1] = request[r2]
          /\ search_outcome[r1] = search_outcome[r2]
          /\ llm_outcome[r1] = llm_outcome[r2] )
        => response[r1] = response[r2]

C8_Witness ==
    \E r1, r2, r3 \in Requests :
        /\ r1 # r2
        /\ pc[r1] = "done" /\ pc[r2] = "done" /\ pc[r3] = "done"
        /\ request[r1] = request[r2]
        /\ request[r3] # request[r1]
        /\ search_outcome[r1] = Returned(<<R2, R1>>)
        /\ search_outcome[r2] = Returned(<<R2, R1>>)
        /\ search_outcome[r3] = Returned(<<>>)
        /\ response[r1].status = 200 /\ response[r2].status = 200
        /\ response[r3].status = 500

\* C9: GET / returns status 200 with the fixed message whether or not the
\* credentials are configured and whatever POST /chat requests have failed
\* or are in flight, and it invokes neither provider.
C9_HomeAlways ==
    [][ home_response' # home_response =>
            /\ home_response' = [status |-> 200,
                                 body |-> [message |-> "Perplex-Mini Backend is Running!"]]
            /\ search_calls' = search_calls
            /\ llm_calls' = llm_calls
            /\ response' = response ]_vars

C9_Witness ==
    /\ ~keys_present
    /\ home_response.status = 200
    /\ \E r1, r2 \in Requests :
        /\ pc[r1] = "done" /\ response[r1].status = 500
        /\ pc[r2] = "generate"

\* C10 as claimed: every query that reaches the search provider and a
\* successful response is non-empty.
C10_QueryNonEmpty ==
    \A r \in Requests :
        /\ \A i \in 1..Len(search_calls[r]) : search_calls[r][i] # ""
        /\ \A k \in 1..Len(llm_calls[r]) :
             llm_calls[r][k][Len(llm_calls[r][k])].content # ""

\* C10 as the code has it: a body is rejected exactly when it has no query;
\* any query string, the empty one too, is processed and reaches the search
\* provider and the last human turn of the prompt unchanged.
C10_QueryUnchecked ==
    \A r \in Requests :
        Started(r) =>
            /\ response[r].status = 422 <=> ~HasKey(body[r], "query")
            /\ HasKey(body[r], "query") =>
                /\ pc[r] # "search" => search_calls[r] = <<body[r]["query"]>>
                /\ \A k \in 1..Len(llm_calls[r]) :
                     llm_calls[r][k][Len(llm_calls[r][k])] =
                        [type |-> "human", content |-> body[r]["query"]]
            /\ ~HasKey(body[r], "query") => search_calls[r] = <<>> /\ llm_calls[r] = <<>>

C10_Witness ==
    \E r \in Requests :
        /\ body[r] = [query |-> ""]
        /\ search_calls[r] = <<"">>
        /\ Len(llm_calls[r]) = 1
        /\ response[r].status = 200
====
